---------------------------- MODULE Spec2Model ----------------------------
(***************************************************************************)
(* Model of the arbitrage tool of src/mastra/agents/arb-agent/arb-tool.ts: *)
(* the exchange-rate lookup, the two orderbook fetches, the INR->USD       *)
(* conversion of the Probo orderbook, calculateArbitrage and the choice of *)
(* the best opportunity for the summary.                                   *)
(* Spec is one caller of arbitrageTool.execute; WorkflowSpec is            *)
(* arbitrageWorkflow of arb-workflow.ts with its concurrent calls of       *)
(* execute; MonitorSpec is ArbitrageMonitor of arb-test.ts with the        *)
(* messages of its sockets.                                                *)
(*                                                                         *)
(* A JavaScript number is modelled as an exact rational n/d in lowest      *)
(* terms (d > 0), or one of NaN, +Infinity, -Infinity.  Binary rounding of *)
(* doubles and the sign of zero are not modelled.                          *)
(***************************************************************************)
EXTENDS Integers, Sequences, FiniteSets, TLC

VARIABLES
    mockProboOrderbook,       \* module-level Probo orderbook (INR)
    mockPolymarketOrderbook,  \* module-level Polymarket orderbook (USD)
    pc,                       \* position of arbitrageTool.execute
    marketId,                 \* context.marketId of the current call
    rateResponse,             \* what the exchange-rate request produced
    inrToUsd,                 \* value returned by getINRtoUSD
    fetched,                  \* fetches of the Promise.all that have resolved
    proboOrderbookINR,        \* result of fetchProboOrderbook
    polymarketOrderbook,      \* result of fetchPolymarketOrderbook
    proboOrderbookUSD,        \* converted Probo orderbook
    result,                   \* value execute returned
    markets,                  \* inputData.markets of analyzeMultipleMarkets
    calls,                    \* the execute call of each entry of markets
    completed,                \* indexes of the calls in the order they returned
    workflowStep,             \* step of arbitrageWorkflow that runs next
    results,                  \* results returned by analyzeMultipleMarkets
    analysis,                 \* value returned by generateAnalysis
    proboWs,                  \* RealTimeOrderbook.proboWs: market of the socket
    polymarketWs,             \* RealTimeOrderbook.polymarketWs
    replacedSockets,          \* sockets overwritten by a later connect, still open
    storedOrderbooks,         \* ArbitrageMonitor.opportunities (key -> orderbook)
    received,                 \* last orderbook each platform sent for each market
    lastCheck                 \* what the last checkArbitrage did

workflowVars == << markets, calls, completed, workflowStep, results, analysis >>

monitorVars == << proboWs, polymarketWs, replacedSockets, storedOrderbooks, received, lastCheck >>

vars == << mockProboOrderbook, mockPolymarketOrderbook, pc, marketId,
           rateResponse, inrToUsd, fetched, proboOrderbookINR,
           polymarketOrderbook, proboOrderbookUSD, result,
           workflowVars, monitorVars >>

---------------------------------------------------------------------------
(* Numbers *)

Abs(i) == IF i < 0 THEN -i ELSE i

Sgn(i) == IF i < 0 THEN -1 ELSE IF i = 0 THEN 0 ELSE 1

RECURSIVE Gcd(_, _)
Gcd(a, b) == IF b = 0 THEN a ELSE Gcd(b, a % b)

\* the finite number n/d (d # 0), in lowest terms with a positive denominator
Rat(n, d) ==
    LET g == Gcd(Abs(n), Abs(d))
    IN  [k |-> "fin", n |-> Sgn(d) * (n \div g), d |-> Abs(d) \div g]

Num(i) == Rat(i, 1)

NaN == [k |-> "nan", n |-> 0, d |-> 1]

PosInf == [k |-> "inf", n |-> 1, d |-> 1]

NegInf == [k |-> "inf", n |-> -1, d |-> 1]

\* an optional field that is absent, a variable not yet assigned
Undefined == [k |-> "undef", n |-> 0, d |-> 1]

IsFinite(x) == x.k = "fin"

IsNaN(x) == x.k = "nan"

\* sign of a number that is not NaN
Sign(x) == Sgn(x.n)

Inf(s) == IF s < 0 THEN NegInf ELSE PosInf

\* ToNumber: undefined becomes NaN in arithmetic
ToNumber(x) == IF x.k = "undef" THEN NaN ELSE x

\* numerators of the finite numbers a and b over their common denominator
Over(a, b) == a.n * (b.d \div Gcd(a.d, b.d))

\* a > b (false whenever an operand is NaN)
Gt(a, b) ==
    IF IsNaN(a) \/ IsNaN(b) THEN FALSE
    ELSE IF IsFinite(a) /\ IsFinite(b) THEN Over(a, b) > Over(b, a)
    ELSE IF IsFinite(a) THEN Sign(b) < 0
    ELSE IF IsFinite(b) THEN Sign(a) > 0
    ELSE Sign(a) > Sign(b)

\* the product of the finite numbers a and b, cancelling before multiplying
Product(a, b) ==
    LET g == Gcd(Abs(a.n), b.d)
        h == Gcd(Abs(b.n), a.d)
    IN  Rat((a.n \div g) * (b.n \div h), (a.d \div h) * (b.d \div g))

\* a * b
Mul(a, b) ==
    IF IsNaN(a) \/ IsNaN(b) THEN NaN
    ELSE IF IsFinite(a) /\ IsFinite(b) THEN Product(a, b)
    ELSE IF Sign(a) * Sign(b) = 0 THEN NaN
    ELSE Inf(Sign(a) * Sign(b))

\* a - b
Sub(a, b) ==
    IF IsNaN(a) \/ IsNaN(b) THEN NaN
    ELSE IF IsFinite(a) /\ IsFinite(b)
         THEN Rat(Over(a, b) - Over(b, a), (a.d \div Gcd(a.d, b.d)) * b.d)
    ELSE IF IsFinite(a) THEN Inf(-Sign(b))
    ELSE IF IsFinite(b) THEN a
    ELSE IF Sign(a) = Sign(b) THEN NaN
    ELSE a

\* a / b (a zero divisor counts as +0)
Div(a, b) ==
    IF IsNaN(a) \/ IsNaN(b) THEN NaN
    ELSE IF IsFinite(a) /\ IsFinite(b) THEN
        IF b.n # 0 THEN Product(a, Rat(b.d, b.n))
        ELSE IF a.n = 0 THEN NaN
        ELSE Inf(Sign(a))
    ELSE IF IsFinite(a) THEN Num(0)
    ELSE IF IsFinite(b) THEN Inf(Sign(a) * (IF Sign(b) < 0 THEN -1 ELSE 1))
    ELSE NaN

\* Math.max in place of Math.min
Min_Max(a, b) ==
    IF IsNaN(a) \/ IsNaN(b) THEN NaN
    ELSE IF Gt(a, b) THEN a ELSE b

\* Math.min(a, b)
Min(a, b) ==
    IF IsNaN(a) \/ IsNaN(b) THEN NaN
    ELSE IF Gt(a, b) THEN b ELSE a

FractionDigits == 4

\* the digits after the fourth are cut off instead of rounded
ToFixed_Truncate(x) ==
    IF ~IsFinite(x) THEN x
    ELSE LET p == 10 ^ FractionDigits
             m == (Abs(x.n) * p) \div x.d
         IN  Rat(Sgn(x.n) * m, p)

\* parseFloat(x.toFixed(FractionDigits)): the multiple of 10^-FractionDigits
\* nearest to x, the one of larger magnitude when two are equally near
ToFixed(x) ==
    IF ~IsFinite(x) THEN x
    ELSE LET p == 10 ^ FractionDigits
             m == (2 * Abs(x.n) * p + x.d) \div (2 * x.d)
         IN  Rat(Sgn(x.n) * m, p)

---------------------------------------------------------------------------
(* Orderbooks *)

Present(levels) == Len(levels) > 0

\* levels of one side: the best level first, each further level one step away
Levels(best, size, step, len) ==
    [i \in 1..len |-> [price |-> Sub(best, Mul(Num(i - 1), step)), size |-> size]]

MaxLevels == 2

Sides(prices, sizes, step) ==
    {<<>>} \cup {Levels(p, s, step, len) : p \in prices, s \in sizes, len \in 1..MaxLevels}

\* Probo quotes in INR; 0.00405 INR has five fractional digits and is worth
\* less than half of 10^-4 USD at the usual rate
ProboBids == Sides({Num(38)}, {Num(100), Num(200)}, Rat(1, 2))

ProboAsks == Sides({Rat(385, 10), Rat(405, 100000)}, {Num(100), Num(200)}, Rat(-1, 2))

\* Polymarket quotes in USD; a bid of 0 is a level no valid orderbook has
PolymarketBids == Sides({Rat(48, 100), Num(0)}, {Num(150)}, Rat(1, 100))

PolymarketAsks ==
    Sides({Rat(49, 100), Rat(456, 1000), Rat(4389, 10000), Rat(40, 100)}, {Num(150)}, Rat(-1, 100))

EmptyOrderbook == [bids |-> <<>>, asks |-> <<>>]

Markets == {"m1", "m2"}

---------------------------------------------------------------------------
(* Exchange rate *)

FallbackRate == Rat(12, 1000)

NoResponse == [kind |-> "none", usd |-> Undefined]

\* outcomes of the request to api.exchangerate.host: fetch rejects, the body is
\* not JSON, the JSON has no rates object, rates has no USD member, or rates.USD
\* is a number
RateResponses ==
    {[kind |-> kd, usd |-> Undefined] : kd \in {"fetchRejected", "invalidJson", "noRates", "noUSD"}}
    \cup {[kind |-> "ok", usd |-> u] : u \in {Rat(12, 1000), Num(1), Num(0), Rat(-12, 1000)}}

getINRtoUSD(resp) ==
    IF resp.kind \in {"fetchRejected", "invalidJson", "noRates"}
    THEN FallbackRate
    ELSE resp.usd

---------------------------------------------------------------------------
(* Conversion and calculation *)

\* the hardcoded rate in place of the fetched one
ConvertPrice_FixedRate(price, rate) == ToFixed(Mul(price, FallbackRate))

ConvertPrice(price, rate) == ToFixed(Mul(price, ToNumber(rate)))

ConvertLevels(levels, rate) ==
    [i \in 1..Len(levels) |->
        [price |-> ConvertPrice(levels[i].price, rate), size |-> levels[i].size]]

\* the source array after levels.map(level => ({...level, price: ...})): map
\* and the spread build new entries and write nothing to the source
SourceAfterMap_InPlace(levels, rate) == ConvertLevels(levels, rate)

SourceAfterMap(levels, rate) == levels

SourceAfterConversion(book, rate) ==
    [bids |-> SourceAfterMap(book.bids, rate), asks |-> SourceAfterMap(book.asks, rate)]

ConvertOrderbook(book, rate) ==
    [bids |-> ConvertLevels(book.bids, rate), asks |-> ConvertLevels(book.asks, rate)]

\* the ratio without the factor 100
ProfitPercentage_Fraction(profit, buyPrice) == Div(profit, buyPrice)

ProfitPercentage(profit, buyPrice) == Mul(Div(profit, buyPrice), Num(100))

\* profit >= 0 in place of profit > 0
IsProfitable_OrZero(profit) == Gt(profit, Num(0)) \/ profit = Num(0)

IsProfitable(profit) == Gt(profit, Num(0))

BuyProboOpportunity(proboBestAskUSD, proboBestAskINR, polymarketBestBid, market) ==
    LET buyPrice == proboBestAskUSD.price
        sellPrice == polymarketBestBid.price
        profit == Sub(sellPrice, buyPrice)
    IN  [platform1 |-> "Probo (converted to USD)",
         platform2 |-> "Polymarket (USD)",
         market |-> market,
         buyPrice |-> buyPrice,
         buyPriceINR |-> proboBestAskINR.price,
         sellPrice |-> sellPrice,
         sellPriceINR |-> Undefined,
         profit |-> profit,
         profitPercentage |-> ProfitPercentage(profit, buyPrice),
         buySize |-> Min(proboBestAskUSD.size, polymarketBestBid.size),
         sellSize |-> Min(proboBestAskUSD.size, polymarketBestBid.size),
         isProfitable |-> IsProfitable(profit)]

BuyPolymarketOpportunity(polymarketBestAsk, proboBestBidUSD, proboBestBidINR, market) ==
    LET buyPrice == polymarketBestAsk.price
        sellPrice == proboBestBidUSD.price
        profit == Sub(sellPrice, buyPrice)
    IN  [platform1 |-> "Polymarket (USD)",
         platform2 |-> "Probo (converted to USD)",
         market |-> market,
         buyPrice |-> buyPrice,
         buyPriceINR |-> Undefined,
         sellPrice |-> sellPrice,
         sellPriceINR |-> proboBestBidINR.price,
         profit |-> profit,
         profitPercentage |-> ProfitPercentage(profit, buyPrice),
         buySize |-> Min(polymarketBestAsk.size, proboBestBidUSD.size),
         sellSize |-> Min(polymarketBestAsk.size, proboBestBidUSD.size),
         isProfitable |-> IsProfitable(profit)]

\* the direction also requires a bid on Probo
EmitBuyProbo_NeedsBids(usd, inr, poly) ==
    Present(usd.asks) /\ Present(inr.asks) /\ Present(poly.bids) /\ Present(usd.bids)

EmitBuyProbo(usd, inr, poly) ==
    Present(usd.asks) /\ Present(inr.asks) /\ Present(poly.bids)

EmitBuyPolymarket(usd, inr, poly) ==
    Present(poly.asks) /\ Present(usd.bids) /\ Present(inr.bids)

\* the opportunities sorted by profitPercentage, the larger first
calculateArbitrage_ByProfit(usd, inr, poly, market, rate) ==
    LET first == IF EmitBuyProbo(usd, inr, poly)
                 THEN << BuyProboOpportunity(usd.asks[1], inr.asks[1], poly.bids[1], market) >>
                 ELSE << >>
        second == IF EmitBuyPolymarket(usd, inr, poly)
                  THEN << BuyPolymarketOpportunity(poly.asks[1], usd.bids[1], inr.bids[1], market) >>
                  ELSE << >>
    IN  IF /\ Len(first) = 1
           /\ Len(second) = 1
           /\ Gt(second[1].profitPercentage, first[1].profitPercentage)
        THEN second \o first
        ELSE first \o second

calculateArbitrage(usd, inr, poly, market, rate) ==
    (IF EmitBuyProbo(usd, inr, poly)
     THEN << BuyProboOpportunity(usd.asks[1], inr.asks[1], poly.bids[1], market) >>
     ELSE << >>)
    \o
    (IF EmitBuyPolymarket(usd, inr, poly)
     THEN << BuyPolymarketOpportunity(poly.asks[1], usd.bids[1], inr.bids[1], market) >>
     ELSE << >>)

---------------------------------------------------------------------------
(* Best opportunity *)

\* >= in place of >
Better_OrEqual(current, best) == ~Gt(best.profitPercentage, current.profitPercentage)

Better(current, best) == Gt(current.profitPercentage, best.profitPercentage)

\* opps.reduce((best, current) => current better than best ? current : best)
RECURSIVE Reduce(_, _, _)
Reduce(best, opps, i) ==
    IF i > Len(opps) THEN best
    ELSE Reduce(IF Better(opps[i], best) THEN opps[i] ELSE best, opps, i + 1)

Profitable(opps) == SelectSeq(opps, LAMBDA opp : opp.isProfitable)

\* the best opportunity of the summary: a sequence of one opportunity, or the
\* empty sequence for "No profitable arbitrage opportunities found."
BestOpportunity(opps) ==
    LET profitableOpportunities == Profitable(opps)
    IN  IF Len(profitableOpportunities) > 0
        THEN << Reduce(profitableOpportunities[1], profitableOpportunities, 2) >>
        ELSE << >>

Summary(opps, market, rate) ==
    [rate |-> rate, found |-> Len(opps), market |-> market, best |-> BestOpportunity(opps)]

NoResult ==
    [status |-> "none", opportunities |-> << >>,
     summary |-> Summary(<< >>, "", Undefined), inrToUsd |-> Undefined]

---------------------------------------------------------------------------
(* The value execute returns *)

\* a rates.USD that is an object with no callable valueOf or toString, such as
\* {"valueOf": 0, "toString": 0}: multiplying by it, or putting it in the
\* summary's template string, throws a TypeError
Unconvertible == [k |-> "object", n |-> 0, d |-> 1]

Throws(rate) == rate.k = "object"

ErrorSummary(market, message) == [market |-> market, error |-> message]

\* the catch of execute
CaughtResult(market, message) ==
    [status |-> "error", opportunities |-> << >>,
     summary |-> ErrorSummary(market, message), inrToUsd |-> Num(0)]

\* execute without its try/catch: the exception reaches the caller
ExecuteResult_Rethrows(inr, poly, market, rate) ==
    IF Throws(rate)
    THEN [status |-> "rejected", opportunities |-> << >>,
          summary |-> ErrorSummary(market, "TypeError"), inrToUsd |-> Undefined]
    ELSE LET opportunities ==
                 calculateArbitrage(ConvertOrderbook(inr, rate), inr, poly, market, rate)
         IN  [status |-> "ok",
              opportunities |-> opportunities,
              summary |-> Summary(opportunities, market, rate),
              inrToUsd |-> rate]

\* lines 203-251 of execute, from the fetched orderbooks and the rate
ExecuteResult(inr, poly, market, rate) ==
    IF Throws(rate)
    THEN CaughtResult(market, "TypeError")
    ELSE LET opportunities ==
                 calculateArbitrage(ConvertOrderbook(inr, rate), inr, poly, market, rate)
         IN  [status |-> "ok",
              opportunities |-> opportunities,
              summary |-> Summary(opportunities, market, rate),
              inrToUsd |-> rate]

---------------------------------------------------------------------------
(* State of the workflow and of the monitor while they are not running *)

NoAnalysis ==
    [totalMarkets |-> 0, profitableOpportunities |-> 0,
     bestOpportunity |-> [marketId |-> "", profitPercentage |-> Undefined, platforms |-> ""]]

WorkflowNotStarted ==
    /\ markets = << >>
    /\ calls = << >>
    /\ completed = << >>
    /\ workflowStep = "none"
    /\ results = << >>
    /\ analysis = NoAnalysis

Platforms == {"Probo", "Polymarket"}

NoOrderbook == [bids |-> << >>, asks |-> << >>, absent |-> TRUE]

NoCheck ==
    [marketId |-> "", evaluated |-> FALSE, proboOrderbook |-> NoOrderbook,
     polymarketOrderbook |-> NoOrderbook, opportunities |-> << >>]

MonitorNotStarted ==
    /\ proboWs = "null"
    /\ polymarketWs = "null"
    /\ replacedSockets = {}
    /\ storedOrderbooks = [key \in {} |-> NoOrderbook]
    /\ received = [m \in Markets |-> [p \in Platforms |-> NoOrderbook]]
    /\ lastCheck = NoCheck

---------------------------------------------------------------------------
(* arbitrageTool.execute *)

Init ==
    /\ mockProboOrderbook \in [bids : ProboBids, asks : ProboAsks]
    /\ mockPolymarketOrderbook \in [bids : PolymarketBids, asks : PolymarketAsks]
    /\ pc = "idle"
    /\ marketId = ""
    /\ rateResponse = NoResponse
    /\ inrToUsd = Undefined
    /\ fetched = {}
    /\ proboOrderbookINR = EmptyOrderbook
    /\ polymarketOrderbook = EmptyOrderbook
    /\ proboOrderbookUSD = EmptyOrderbook
    /\ result = NoResult
    /\ WorkflowNotStarted
    /\ MonitorNotStarted

\* execute is called: it requests the exchange rate
Invoke(m) ==
    /\ pc \in {"idle", "done"}
    /\ pc' = "rate"
    /\ marketId' = m
    /\ rateResponse' = NoResponse
    /\ inrToUsd' = Undefined
    /\ fetched' = {}
    /\ proboOrderbookINR' = EmptyOrderbook
    /\ polymarketOrderbook' = EmptyOrderbook
    /\ proboOrderbookUSD' = EmptyOrderbook
    /\ result' = NoResult
    /\ UNCHANGED << mockProboOrderbook, mockPolymarketOrderbook >>
    /\ UNCHANGED << workflowVars, monitorVars >>

\* getINRtoUSD settles; execute starts the two orderbook fetches
GetRate(resp) ==
    /\ pc = "rate"
    /\ rateResponse' = resp
    /\ inrToUsd' = getINRtoUSD(resp)
    /\ pc' = "fetch"
    /\ UNCHANGED << mockProboOrderbook, mockPolymarketOrderbook, marketId, fetched,
                    proboOrderbookINR, polymarketOrderbook, proboOrderbookUSD, result >>
    /\ UNCHANGED << workflowVars, monitorVars >>

fetchProboOrderbook ==
    /\ pc = "fetch"
    /\ "Probo" \notin fetched
    /\ fetched' = fetched \cup {"Probo"}
    /\ proboOrderbookINR' = mockProboOrderbook
    /\ UNCHANGED << mockProboOrderbook, mockPolymarketOrderbook, pc, marketId,
                    rateResponse, inrToUsd, polymarketOrderbook, proboOrderbookUSD, result >>
    /\ UNCHANGED << workflowVars, monitorVars >>

fetchPolymarketOrderbook ==
    /\ pc = "fetch"
    /\ "Polymarket" \notin fetched
    /\ fetched' = fetched \cup {"Polymarket"}
    /\ polymarketOrderbook' = mockPolymarketOrderbook
    /\ UNCHANGED << mockProboOrderbook, mockPolymarketOrderbook, pc, marketId,
                    rateResponse, inrToUsd, proboOrderbookINR, proboOrderbookUSD, result >>
    /\ UNCHANGED << workflowVars, monitorVars >>

\* both fetches have resolved: convert, calculate, summarise and return.
\* proboOrderbookINR is the object mockProboOrderbook (the fetch returns it by
\* reference), so what the conversion leaves in one it leaves in the other.
Complete ==
    /\ pc = "fetch"
    /\ fetched = {"Probo", "Polymarket"}
    /\ proboOrderbookUSD' = IF Throws(inrToUsd)
                            THEN proboOrderbookUSD
                            ELSE ConvertOrderbook(proboOrderbookINR, inrToUsd)
    /\ result' = ExecuteResult(proboOrderbookINR, polymarketOrderbook, marketId, inrToUsd)
    /\ proboOrderbookINR' = IF Throws(inrToUsd)
                            THEN proboOrderbookINR
                            ELSE SourceAfterConversion(proboOrderbookINR, inrToUsd)
    /\ mockProboOrderbook' = proboOrderbookINR'
    /\ pc' = "done"
    /\ UNCHANGED << mockPolymarketOrderbook, marketId, rateResponse,
                    inrToUsd, fetched, polymarketOrderbook >>
    /\ UNCHANGED << workflowVars, monitorVars >>

Next ==
    \/ \E m \in Markets : Invoke(m)
    \/ \E resp \in RateResponses : GetRate(resp)
    \/ fetchProboOrderbook
    \/ fetchPolymarketOrderbook
    \/ Complete

Spec == Init /\ [][Next]_vars

toolVars == << pc, marketId, rateResponse, inrToUsd, fetched, proboOrderbookINR,
               polymarketOrderbook, proboOrderbookUSD, result >>

ToolNotStarted ==
    /\ pc = "idle"
    /\ marketId = ""
    /\ rateResponse = NoResponse
    /\ inrToUsd = Undefined
    /\ fetched = {}
    /\ proboOrderbookINR = EmptyOrderbook
    /\ polymarketOrderbook = EmptyOrderbook
    /\ proboOrderbookUSD = EmptyOrderbook
    /\ result = NoResult

---------------------------------------------------------------------------
(* arbitrageWorkflow: analyzeMultipleMarkets, then generateAnalysis *)

MaxMarkets == 2

MarketLists == UNION {[1..n -> Markets] : n \in 0..MaxMarkets}

\* one level per side: Probo 38.0 / 38.5 INR, Polymarket 0.48 / 0.49 or 0.40 USD
WorkflowProboOrderbooks ==
    [bids : {<< >>, Levels(Num(38), Num(100), Rat(1, 2), 1)},
     asks : {Levels(Rat(385, 10), Num(100), Rat(-1, 2), 1)}]

WorkflowPolymarketOrderbooks ==
    [bids : {Levels(Rat(48, 100), Num(150), Rat(1, 100), 1)},
     asks : {Levels(Rat(49, 100), Num(150), Rat(-1, 100), 1),
             Levels(Rat(40, 100), Num(150), Rat(-1, 100), 1)}]

WorkflowRateResponses ==
    {[kind |-> "fetchRejected", usd |-> Undefined],
     [kind |-> "ok", usd |-> Num(1)],
     [kind |-> "ok", usd |-> Unconvertible]}

\* a call of execute that has requested the exchange rate
NewCall(m) ==
    [pc |-> "rate", marketId |-> m, rateResponse |-> NoResponse, inrToUsd |-> Undefined,
     fetched |-> {}, proboOrderbookINR |-> EmptyOrderbook,
     polymarketOrderbook |-> EmptyOrderbook, result |-> NoResult]

CallIndexes == 1..Len(calls)

\* one variable for all calls in place of one per call: every call reads what
\* the call started last has
Local_Shared(i) == calls[Len(calls)]

\* marketId, inrToUsd and the orderbooks of call i are locals of that call
Local(i) == calls[i]

WorkflowInit ==
    /\ mockProboOrderbook \in WorkflowProboOrderbooks
    /\ mockPolymarketOrderbook \in WorkflowPolymarketOrderbooks
    /\ ToolNotStarted
    /\ MonitorNotStarted
    /\ markets \in MarketLists
    /\ calls = [i \in 1..Len(markets) |-> NewCall(markets[i])]
    /\ completed = << >>
    /\ workflowStep = "analyze"
    /\ results = << >>
    /\ analysis = NoAnalysis

CallGetRate(i, resp) ==
    /\ calls[i].pc = "rate"
    /\ calls' = [calls EXCEPT ![i].rateResponse = resp,
                              ![i].inrToUsd = getINRtoUSD(resp),
                              ![i].pc = "fetch"]
    /\ UNCHANGED << mockProboOrderbook, mockPolymarketOrderbook, toolVars, monitorVars,
                    markets, completed, workflowStep, results, analysis >>

CallFetchProbo(i) ==
    /\ calls[i].pc = "fetch"
    /\ "Probo" \notin calls[i].fetched
    /\ calls' = [calls EXCEPT ![i].fetched = @ \cup {"Probo"},
                              ![i].proboOrderbookINR = mockProboOrderbook]
    /\ UNCHANGED << mockProboOrderbook, mockPolymarketOrderbook, toolVars, monitorVars,
                    markets, completed, workflowStep, results, analysis >>

CallFetchPolymarket(i) ==
    /\ calls[i].pc = "fetch"
    /\ "Polymarket" \notin calls[i].fetched
    /\ calls' = [calls EXCEPT ![i].fetched = @ \cup {"Polymarket"},
                              ![i].polymarketOrderbook = mockPolymarketOrderbook]
    /\ UNCHANGED << mockProboOrderbook, mockPolymarketOrderbook, toolVars, monitorVars,
                    markets, completed, workflowStep, results, analysis >>

\* call i converts, calculates, summarises and returns
CallComplete(i) ==
    /\ calls[i].pc = "fetch"
    /\ calls[i].fetched = {"Probo", "Polymarket"}
    /\ calls' = [calls EXCEPT
                    ![i].result = ExecuteResult(Local(i).proboOrderbookINR,
                                                Local(i).polymarketOrderbook,
                                                Local(i).marketId, Local(i).inrToUsd),
                    ![i].pc = "done"]
    /\ mockProboOrderbook' = IF Throws(Local(i).inrToUsd)
                             THEN mockProboOrderbook
                             ELSE SourceAfterConversion(mockProboOrderbook, Local(i).inrToUsd)
    /\ completed' = Append(completed, i)
    /\ UNCHANGED << mockPolymarketOrderbook, toolVars, monitorVars,
                    markets, workflowStep, results, analysis >>

\* the positions of the calls in the array Promise.all resolves to: completion
\* order in place of input order
ResultOrder_Completion(n, order) == order

ResultOrder(n, order) == [k \in 1..n |-> k]

\* the callback of markets.map: the marketId with the result spread over it,
\* or the entry of its catch when execute rejects
ResultEntry(market, res) ==
    IF res.status = "rejected"
    THEN [marketId |-> market, status |-> "caught", opportunities |-> << >>,
          summary |-> ErrorSummary(market, ""), inrToUsd |-> Undefined]
    ELSE [marketId |-> market, status |-> res.status, opportunities |-> res.opportunities,
          summary |-> res.summary, inrToUsd |-> res.inrToUsd]

\* every call has returned: Promise.all resolves, analyzeMultipleMarkets returns
AnalyzeReturn ==
    /\ workflowStep = "analyze"
    /\ \A i \in CallIndexes : calls[i].pc = "done"
    /\ LET order == ResultOrder(Len(calls), completed)
       IN  results' = [k \in 1..Len(calls) |->
                          ResultEntry(calls[order[k]].marketId, calls[order[k]].result)]
    /\ workflowStep' = "generate"
    /\ UNCHANGED << mockProboOrderbook, mockPolymarketOrderbook, toolVars, monitorVars,
                    markets, calls, completed, analysis >>

RECURSIVE FlatMap(_, _)
\* res.flatMap(r => r.opportunities), from entry i on
FlatMap(res, i) ==
    IF i > Len(res) THEN << >> ELSE res[i].opportunities \o FlatMap(res, i + 1)

PlatformsOf(opp) == opp.platform1 \o " -> " \o opp.platform2

\* the statistics and the best opportunity generateAnalysis returns
Analysis(res) ==
    LET allOpportunities == FlatMap(res, 1)
        best == BestOpportunity(allOpportunities)
    IN  [totalMarkets |-> Len(res),
         profitableOpportunities |-> Len(Profitable(allOpportunities)),
         bestOpportunity |->
             IF best # << >>
             THEN [marketId |-> PlatformsOf(best[1]),
                   profitPercentage |-> best[1].profitPercentage,
                   platforms |-> PlatformsOf(best[1])]
             ELSE [marketId |-> "None", profitPercentage |-> Num(0), platforms |-> "None"]]

GenerateAnalysis ==
    /\ workflowStep = "generate"
    /\ analysis' = Analysis(results)
    /\ workflowStep' = "finished"
    /\ UNCHANGED << mockProboOrderbook, mockPolymarketOrderbook, toolVars, monitorVars,
                    markets, calls, completed, results >>

WorkflowNext ==
    \/ \E i \in CallIndexes, resp \in WorkflowRateResponses : CallGetRate(i, resp)
    \/ \E i \in CallIndexes : CallFetchProbo(i)
    \/ \E i \in CallIndexes : CallFetchPolymarket(i)
    \/ \E i \in CallIndexes : CallComplete(i)
    \/ AnalyzeReturn
    \/ GenerateAnalysis

WorkflowSpec == WorkflowInit /\ [][WorkflowNext]_vars

---------------------------------------------------------------------------
(* ArbitrageMonitor and RealTimeOrderbook of arb-test.ts *)

\* orderbooks of the messages, in one currency; NoOrderbook is a message
\* without an orderbook field
ProboMessageOrderbooks ==
    {[bids |-> << >>, asks |-> Levels(Rat(45, 100), Num(100), Rat(-1, 100), 1), absent |-> FALSE],
     [bids |-> Levels(Rat(456, 1000), Num(100), Rat(1, 100), 1),
      asks |-> Levels(Rat(50, 100), Num(100), Rat(-1, 100), 1), absent |-> FALSE],
     [bids |-> Levels(Rat(456, 1000), Num(100), Rat(1, 100), 1), asks |-> << >>, absent |-> FALSE],
     NoOrderbook}

PolymarketMessageOrderbooks ==
    {[bids |-> Levels(Rat(48, 100), Num(150), Rat(1, 100), 1), asks |-> << >>, absent |-> FALSE],
     [bids |-> Levels(Rat(48, 100), Num(150), Rat(1, 100), 1),
      asks |-> Levels(Rat(49, 100), Num(150), Rat(-1, 100), 1), absent |-> FALSE],
     [bids |-> << >>, asks |-> Levels(Rat(40, 100), Num(150), Rat(-1, 100), 1), absent |-> FALSE],
     NoOrderbook}

\* the key names the platform only
Key_PlatformOnly(market, platform) == platform

Key(market, platform) == market \o "-" \o platform

\* Map.get: undefined for a key that was never set
Get(map, key) == IF key \in DOMAIN map THEN map[key] ELSE NoOrderbook

\* Map.set
Set(map, key, value) ==
    [k \in DOMAIN map \cup {key} |-> IF k = key THEN value ELSE map[k]]

\* ArbitrageMonitor.calculateArbitrage
MonitorCalculateArbitrage(proboOrderbook, polymarketBook, market) ==
    IF Present(proboOrderbook.asks) /\ Present(polymarketBook.bids)
    THEN LET buyPrice == proboOrderbook.asks[1].price
             sellPrice == polymarketBook.bids[1].price
             profit == Sub(sellPrice, buyPrice)
         IN  << [platform1 |-> "Probo",
                 platform2 |-> "Polymarket",
                 market |-> market,
                 buyPrice |-> buyPrice,
                 sellPrice |-> sellPrice,
                 profit |-> profit,
                 profitPercentage |-> ProfitPercentage(profit, buyPrice),
                 isProfitable |-> IsProfitable(profit)] >>
    ELSE << >>

checkArbitrage(market, map) ==
    LET proboOrderbook == Get(map, Key(market, "Probo"))
        polymarketBook == Get(map, Key(market, "Polymarket"))
    IN  IF ~proboOrderbook.absent /\ ~polymarketBook.absent
        THEN [marketId |-> market, evaluated |-> TRUE,
              proboOrderbook |-> proboOrderbook,
              polymarketOrderbook |-> polymarketBook,
              opportunities |-> MonitorCalculateArbitrage(proboOrderbook, polymarketBook, market)]
        ELSE [marketId |-> market, evaluated |-> FALSE,
              proboOrderbook |-> NoOrderbook,
              polymarketOrderbook |-> NoOrderbook,
              opportunities |-> << >>]

updateOrderbook(platform, market, orderbook) ==
    /\ storedOrderbooks' = Set(storedOrderbooks, Key(market, platform), orderbook)
    /\ received' = [received EXCEPT ![market][platform] = orderbook]
    /\ lastCheck' = checkArbitrage(market, storedOrderbooks')

Socket(platform, market) == [platform |-> platform, marketId |-> market]

\* the socket of platform for market exists and has not been closed
Open(platform, market) ==
    \/ platform = "Probo" /\ proboWs = market
    \/ platform = "Polymarket" /\ polymarketWs = market
    \/ Socket(platform, market) \in replacedSockets

MonitorInit ==
    /\ mockProboOrderbook \in WorkflowProboOrderbooks
    /\ mockPolymarketOrderbook \in WorkflowPolymarketOrderbooks
    /\ ToolNotStarted
    /\ WorkflowNotStarted
    /\ MonitorNotStarted

\* connectToProbo and connectToPolymarket overwrite the fields; a socket that
\* was there stays open
startMonitoring(market) ==
    /\ replacedSockets' = replacedSockets
           \cup (IF proboWs = "null" THEN {} ELSE {Socket("Probo", proboWs)})
           \cup (IF polymarketWs = "null" THEN {} ELSE {Socket("Polymarket", polymarketWs)})
    /\ proboWs' = market
    /\ polymarketWs' = market
    /\ UNCHANGED << storedOrderbooks, received, lastCheck >>
    /\ UNCHANGED << mockProboOrderbook, mockPolymarketOrderbook, toolVars, workflowVars >>

\* disconnect closes the sockets the fields hold
stopMonitoring ==
    /\ proboWs' = "null"
    /\ polymarketWs' = "null"
    /\ UNCHANGED << replacedSockets, storedOrderbooks, received, lastCheck >>
    /\ UNCHANGED << mockProboOrderbook, mockPolymarketOrderbook, toolVars, workflowVars >>

ProboMessage(market, orderbook) ==
    /\ Open("Probo", market)
    /\ updateOrderbook("Probo", market, orderbook)
    /\ UNCHANGED << proboWs, polymarketWs, replacedSockets >>
    /\ UNCHANGED << mockProboOrderbook, mockPolymarketOrderbook, toolVars, workflowVars >>

PolymarketMessage(market, orderbook) ==
    /\ Open("Polymarket", market)
    /\ updateOrderbook("Polymarket", market, orderbook)
    /\ UNCHANGED << proboWs, polymarketWs, replacedSockets >>
    /\ UNCHANGED << mockProboOrderbook, mockPolymarketOrderbook, toolVars, workflowVars >>

MonitorNext ==
    \/ \E m \in Markets : startMonitoring(m)
    \/ stopMonitoring
    \/ \E m \in Markets, o \in ProboMessageOrderbooks : ProboMessage(m, o)
    \/ \E m \in Markets, o \in PolymarketMessageOrderbooks : PolymarketMessage(m, o)

MonitorSpec == MonitorInit /\ [][MonitorNext]_vars

---------------------------------------------------------------------------
(* Properties of a completed call *)

Done == pc = "done"

Opportunities == result.opportunities

OpportunityIndexes == 1..Len(Opportunities)

BuysOnProbo(opp) == opp.platform1 = "Probo (converted to USD)"

BuysOnPolymarket(opp) == opp.platform1 = "Polymarket (USD)"

\* the best ask of the buy platform and the best bid of the sell platform are
\* both present, for each direction
ProboToPolymarketPresent == Present(proboOrderbookINR.asks) /\ Present(polymarketOrderbook.bids)

PolymarketToProboPresent == Present(polymarketOrderbook.asks) /\ Present(proboOrderbookINR.bids)

Count(b) == IF b THEN 1 ELSE 0

\* C1: a completed call returns 0, 1 or 2 opportunities, and it returns an
\* opportunity for a direction exactly when the buy platform's best ask and the
\* sell platform's best bid are both present; a direction with a missing best
\* ask or best bid adds no record.
C1_OneOpportunityPerPresentDirection ==
    Done =>
        /\ Len(Opportunities) \in {0, 1, 2}
        /\ Len(Opportunities) = Count(ProboToPolymarketPresent) + Count(PolymarketToProboPresent)
        /\ ProboToPolymarketPresent <=>
               Cardinality({i \in OpportunityIndexes : BuysOnProbo(Opportunities[i])}) = 1
        /\ PolymarketToProboPresent <=>
               Cardinality({i \in OpportunityIndexes : BuysOnPolymarket(Opportunities[i])}) = 1
        /\ \A i \in OpportunityIndexes :
               BuysOnProbo(Opportunities[i]) \/ BuysOnPolymarket(Opportunities[i])

\* one direction is skipped because Probo has no asks, the other is emitted
C1_Witness ==
    /\ Done
    /\ ~Present(proboOrderbookINR.asks)
    /\ Present(polymarketOrderbook.bids)
    /\ PolymarketToProboPresent
    /\ Len(Opportunities) = 1

Zero == Num(0)

\* the levels a direction trades against, taken from the orderbooks the call
\* fetched and converted
BuyLevelUSD(opp) ==
    IF BuysOnProbo(opp) THEN proboOrderbookUSD.asks[1] ELSE polymarketOrderbook.asks[1]

SellLevelUSD(opp) ==
    IF BuysOnProbo(opp) THEN polymarketOrderbook.bids[1] ELSE proboOrderbookUSD.bids[1]

\* C2: for every emitted opportunity buyPrice is the buy platform's best ask
\* price and sellPrice the sell platform's best bid price, both in USD,
\* profit = sellPrice - buyPrice and profitPercentage = profit / buyPrice * 100.
C2_PricesProfitAndPercentage ==
    Done =>
        \A i \in OpportunityIndexes :
            LET opp == Opportunities[i]
            IN  /\ opp.buyPrice = BuyLevelUSD(opp).price
                /\ opp.sellPrice = SellLevelUSD(opp).price
                /\ opp.profit = Sub(opp.sellPrice, opp.buyPrice)
                /\ opp.profitPercentage = Mul(Div(opp.profit, opp.buyPrice), Num(100))

\* the example of the specification: buy at 0.462 (38.5 INR at 0.012), sell at
\* 0.48, profit 0.018, 3.896...% (= 300/77)
C2_Witness ==
    /\ Done
    /\ \E i \in OpportunityIndexes :
           /\ BuysOnProbo(Opportunities[i])
           /\ Opportunities[i].buyPrice = Rat(462, 1000)
           /\ Opportunities[i].sellPrice = Rat(48, 100)
           /\ Opportunities[i].profit = Rat(18, 1000)
           /\ Opportunities[i].profitPercentage = Rat(300, 77)

IsPositive(x) == Gt(x, Zero)

AllPricesPositive(book) ==
    /\ \A i \in 1..Len(book.bids) : IsPositive(book.bids[i].price)
    /\ \A i \in 1..Len(book.asks) : IsPositive(book.asks[i].price)

AllSizesPositive(book) ==
    /\ \A i \in 1..Len(book.bids) : IsPositive(book.bids[i].size)
    /\ \A i \in 1..Len(book.asks) : IsPositive(book.asks[i].size)

ValidRate(rate) == IsFinite(rate) /\ IsPositive(rate)

ValidOrderbook(book) == AllPricesPositive(book) /\ AllSizesPositive(book)

\* C3: when every input price is > 0 and the rate is > 0, every emitted
\* opportunity has buyPrice > 0.
C3_BuyPricePositive ==
    (/\ Done
     /\ AllPricesPositive(proboOrderbookINR)
     /\ AllPricesPositive(polymarketOrderbook)
     /\ ValidRate(inrToUsd))
    => \A i \in OpportunityIndexes : IsPositive(Opportunities[i].buyPrice)

\* C4: an invalid rate or an orderbook with a non-positive price or size is
\* rejected: the call does not return opportunities computed from it.
C4_InvalidInputsRejected ==
    (/\ Done
     /\ \/ ~ValidRate(inrToUsd)
        \/ ~ValidOrderbook(proboOrderbookINR)
        \/ ~ValidOrderbook(polymarketOrderbook))
    => (result.status # "ok" /\ result.opportunities = << >>)

ProfitableIndexes == {i \in OpportunityIndexes : Opportunities[i].isProfitable}

AtLeast(i, j) == ~Gt(Opportunities[j].profitPercentage, Opportunities[i].profitPercentage)

\* C5: the best opportunity is the profitable opportunity with the maximum
\* profitPercentage, the first one of those that share the maximum, and there
\* is none when no opportunity is profitable.
C5_BestIsFirstMaximumProfitable ==
    Done =>
        IF ProfitableIndexes = {}
        THEN result.summary.best = << >>
        ELSE \E i \in ProfitableIndexes :
                 /\ result.summary.best = << Opportunities[i] >>
                 /\ \A j \in ProfitableIndexes : AtLeast(i, j)
                 /\ \A j \in ProfitableIndexes : j < i => ~AtLeast(j, i)

\* two profitable opportunities share the maximum and the first is the best
C5_Witness ==
    /\ Done
    /\ ProfitableIndexes = {1, 2}
    /\ Opportunities[1].profitPercentage = Opportunities[2].profitPercentage
    /\ result.summary.best = << Opportunities[1] >>

HalfUnit == Rat(5, 10 ^ (FractionDigits + 1))

\* out is x rounded half-up to FractionDigits fractional digits
RoundedHalfUp(out, x) ==
    /\ IsFinite(out)
    /\ (10 ^ FractionDigits) % out.d = 0
    /\ Gt(out, Sub(x, HalfUnit))
    /\ ~Gt(Sub(out, HalfUnit), x)

ConvertedLevels(out, in, rate) ==
    /\ Len(out) = Len(in)
    /\ \A i \in 1..Len(in) :
           /\ out[i].size = in[i].size
           /\ RoundedHalfUp(out[i].price, Mul(in[i].price, rate))

AtMostFractionDigits(x) == IsFinite(x) /\ (10 ^ FractionDigits) % x.d = 0

RateOneLevels(out, in) ==
    /\ Len(out) = Len(in)
    /\ \A i \in 1..Len(in) :
           /\ out[i].size = in[i].size
           /\ RoundedHalfUp(out[i].price, in[i].price)
           /\ AtMostFractionDigits(in[i].price) => out[i].price = in[i].price

RateNotObtained == rateResponse.kind \in {"fetchRejected", "invalidJson", "noRates", "noUSD"}

\* C8: when the rate request fails, the response cannot be parsed or the
\* response carries no USD rate, the rate used is the fallback 0.012, which
\* is > 0.
C8_FallbackWheneverRateNotObtained ==
    (pc \in {"fetch", "done"} /\ RateNotObtained) =>
        /\ inrToUsd = FallbackRate
        /\ IsPositive(inrToUsd)

\* C9: for every emitted opportunity isProfitable is true iff profit > 0.
C9_ProfitableIffPositiveProfit ==
    Done =>
        \A i \in OpportunityIndexes :
            Opportunities[i].isProfitable <=> IsPositive(Opportunities[i].profit)

\* a zero spread and a negative spread are returned as unprofitable records
C9_Witness ==
    /\ Done
    /\ Len(Opportunities) = 2
    /\ Opportunities[1].profit = Rat(18, 1000) /\ Opportunities[1].isProfitable
    /\ Opportunities[2].profit = Zero /\ ~Opportunities[2].isProfitable
    /\ ValidRate(inrToUsd)

BuyLevelINR(opp) ==
    IF BuysOnProbo(opp) THEN proboOrderbookINR.asks[1] ELSE polymarketOrderbook.asks[1]

SellLevelINR(opp) ==
    IF BuysOnProbo(opp) THEN polymarketOrderbook.bids[1] ELSE proboOrderbookINR.bids[1]

Smaller(a, b) == IF Gt(a, b) THEN b ELSE a

\* C10: for every emitted opportunity buySize and sellSize are equal, and both
\* are the minimum of the buy platform's best-ask size and the sell platform's
\* best-bid size.
C10_SizesAreMinimum ==
    Done =>
        \A i \in OpportunityIndexes :
            LET opp == Opportunities[i]
                ask == BuyLevelINR(opp).size
                bid == SellLevelINR(opp).size
            IN  /\ opp.buySize = opp.sellSize
                /\ opp.buySize \in {ask, bid}
                /\ ~Gt(opp.buySize, ask)
                /\ ~Gt(opp.buySize, bid)

\* the ask is the smaller size in one direction, the bid in the other
C10_Witness ==
    /\ Done
    /\ Len(Opportunities) = 2
    /\ proboOrderbookINR.asks[1].size = Num(200)
    /\ polymarketOrderbook.bids[1].size = Num(150)
    /\ Opportunities[1].buySize = Num(150)
    /\ proboOrderbookINR.bids[1].size = Num(100)
    /\ polymarketOrderbook.asks[1].size = Num(150)
    /\ Opportunities[2].buySize = Num(100)

\* C11: when both directions are emitted the buy-on-Probo opportunity is first
\* and the buy-on-Polymarket opportunity second, whichever has the larger
\* profit; a single emitted direction is the only element.
C11_ProboDirectionFirst ==
    Done =>
        /\ Len(Opportunities) = 2 =>
               BuysOnProbo(Opportunities[1]) /\ BuysOnPolymarket(Opportunities[2])
        /\ Len(Opportunities) = 1 =>
               \/ BuysOnProbo(Opportunities[1]) /\ ProboToPolymarketPresent
               \/ BuysOnPolymarket(Opportunities[1]) /\ PolymarketToProboPresent

\* both directions are emitted and the second has the larger profit
C11_Witness ==
    /\ Done
    /\ Len(Opportunities) = 2
    /\ BuysOnProbo(Opportunities[1])
    /\ Gt(Opportunities[2].profit, Opportunities[1].profit)
    /\ Gt(Opportunities[2].profitPercentage, Opportunities[1].profitPercentage)

\* C12: no step of any sequence of calls changes the module-level orderbooks
\* that the fetches hand to the conversion and to calculateArbitrage.
C12_SourceOrderbooksNeverChange ==
    [][/\ mockProboOrderbook' = mockProboOrderbook
       /\ mockPolymarketOrderbook' = mockPolymarketOrderbook]_vars

\* a call has converted a non-empty Probo orderbook to other prices and the
\* orderbook it fetched is still the module-level one
C12_Witness ==
    /\ Done
    /\ Present(proboOrderbookINR.bids)
    /\ Present(proboOrderbookINR.asks)
    /\ proboOrderbookUSD.bids[1].price # proboOrderbookINR.bids[1].price
    /\ proboOrderbookINR = mockProboOrderbook
    /\ polymarketOrderbook = mockPolymarketOrderbook
    /\ Len(Opportunities) = 2

---------------------------------------------------------------------------
(* Properties of the workflow *)

CallDone(i) == calls[i].pc = "done"

\* what the call for market m returns when it runs alone and gets the rate
\* response resp
AloneResult(m, resp) ==
    ExecuteResult(mockProboOrderbook, mockPolymarketOrderbook, m, getINRtoUSD(resp))

\* C13: in every interleaving of the concurrent calls each call returns the
\* opportunities it returns when run alone, and every opportunity of a call
\* carries that call's marketId.
C13_ConcurrentCallsIndependent ==
    \A i \in CallIndexes :
        CallDone(i) =>
            /\ calls[i].result = AloneResult(markets[i], calls[i].rateResponse)
            /\ \A j \in 1..Len(calls[i].result.opportunities) :
                   calls[i].result.opportunities[j].market = markets[i]

\* two calls on different markets, with different rates, returned
\* opportunities, the second before the first
C13_Witness ==
    /\ Len(calls) = 2
    /\ markets[1] # markets[2]
    /\ CallDone(1) /\ CallDone(2)
    /\ completed = << 2, 1 >>
    /\ calls[1].inrToUsd # calls[2].inrToUsd
    /\ Len(calls[1].result.opportunities) = 2
    /\ Len(calls[2].result.opportunities) = 2

\* C15: a call never ends with an exception; when the conversion or the
\* summary throws it returns no opportunities, inrToUsd = 0 and a summary that
\* names the market and the error.
C15_ExceptionsBecomeErrorResults ==
    \A i \in CallIndexes :
        CallDone(i) =>
            /\ calls[i].result.status \in {"ok", "error"}
            /\ Throws(calls[i].inrToUsd) =>
                   /\ calls[i].result.status = "error"
                   /\ calls[i].result.opportunities = << >>
                   /\ calls[i].result.inrToUsd = Num(0)
                   /\ calls[i].result.summary.market = markets[i]
                   /\ calls[i].result.summary.error = "TypeError"

\* a call whose conversion threw although both directions had their levels
C15_Witness ==
    /\ Len(calls) >= 1
    /\ CallDone(1)
    /\ Throws(calls[1].inrToUsd)
    /\ Present(calls[1].proboOrderbookINR.asks)
    /\ Present(calls[1].proboOrderbookINR.bids)
    /\ calls[1].result.status = "error"
    /\ calls[1].result.opportunities = << >>

Analyzed == workflowStep \in {"generate", "finished"}

\* C17: analyzeMultipleMarkets returns one result per input market, in input
\* order whatever the completion order; a market whose check failed has an
\* entry with its marketId and no opportunities, and the other entries are
\* what their own calls returned.
C17_OneResultPerMarketInInputOrder ==
    Analyzed =>
        /\ Len(results) = Len(markets)
        /\ \A k \in 1..Len(markets) :
               /\ results[k].marketId = markets[k]
               /\ results[k].opportunities =
                      AloneResult(markets[k], calls[k].rateResponse).opportunities
               /\ results[k].status # "ok" => results[k].opportunities = << >>

\* the first market's check failed, the second returned first, with
\* opportunities
C17_Witness ==
    /\ Analyzed
    /\ markets = << "m1", "m2" >>
    /\ completed = << 2, 1 >>
    /\ results[1].status = "error"
    /\ results[1].marketId = "m1"
    /\ results[2].status = "ok"
    /\ Len(results[2].opportunities) = 2

ProfitablePairs ==
    {kj \in (1..Len(results)) \X (1..2) :
        /\ kj[2] <= Len(results[kj[1]].opportunities)
        /\ results[kj[1]].opportunities[kj[2]].isProfitable}

OpportunityAt(kj) == results[kj[1]].opportunities[kj[2]]

\* C18: bestOpportunity is the profitable opportunity with the highest
\* profitPercentage of all results, with the marketId of the result that
\* contains it; with no profitable opportunity it is 'None', 'None', 0; and
\* profitableOpportunities counts the profitable opportunities.
C18_BestOpportunityNamesItsMarket ==
    workflowStep = "finished" =>
        /\ analysis.profitableOpportunities = Cardinality(ProfitablePairs)
        /\ IF ProfitablePairs = {}
           THEN analysis.bestOpportunity =
                    [marketId |-> "None", profitPercentage |-> Num(0), platforms |-> "None"]
           ELSE \E kj \in ProfitablePairs :
                    /\ \A other \in ProfitablePairs :
                           ~Gt(OpportunityAt(other).profitPercentage,
                               OpportunityAt(kj).profitPercentage)
                    /\ analysis.bestOpportunity.profitPercentage =
                           OpportunityAt(kj).profitPercentage
                    /\ analysis.bestOpportunity.marketId = results[kj[1]].marketId

---------------------------------------------------------------------------
(* Properties of the monitor *)

ReceivedFrom(platform, market) == received[market][platform]

\* the direction of an opportunity: the platform it buys on
BuysOn(opp) ==
    IF opp.platform1 \in {"Probo", "Probo (converted to USD)"} THEN "Probo" ELSE "Polymarket"

SameValues(a, b) ==
    /\ BuysOn(a) = BuysOn(b)
    /\ a.buyPrice = b.buyPrice
    /\ a.sellPrice = b.sellPrice
    /\ a.profit = b.profit
    /\ a.profitPercentage = b.profitPercentage
    /\ a.isProfitable = b.isProfitable

SameOpportunities(a, b) ==
    /\ Len(a) = Len(b)
    /\ \A j \in 1..Len(a) : SameValues(a[j], b[j])

\* C14: for orderbooks in one currency the monitor's calculateArbitrage emits
\* the same directions, in the same order and with the same buyPrice,
\* sellPrice, profit, profitPercentage and isProfitable as calculateArbitrage
\* of arb-tool.ts.
C14_MonitorSameAsTool ==
    lastCheck.evaluated =>
        SameOpportunities(
            lastCheck.opportunities,
            calculateArbitrage(lastCheck.proboOrderbook, lastCheck.proboOrderbook,
                               lastCheck.polymarketOrderbook, lastCheck.marketId, Num(1)))

\* C16: whatever messages have arrived, a market is evaluated only when both
\* platforms have sent an orderbook for it, and the evaluation uses the last
\* orderbook each platform sent for that market.
C16_EvaluatesLatestOfBothPlatforms ==
    lastCheck.evaluated =>
        /\ ~ReceivedFrom("Probo", lastCheck.marketId).absent
        /\ ~ReceivedFrom("Polymarket", lastCheck.marketId).absent
        /\ lastCheck.proboOrderbook = ReceivedFrom("Probo", lastCheck.marketId)
        /\ lastCheck.polymarketOrderbook = ReceivedFrom("Polymarket", lastCheck.marketId)

\* m1 is evaluated after both platforms have also sent other orderbooks for m2
C16_Witness ==
    /\ lastCheck.evaluated
    /\ lastCheck.marketId = "m1"
    /\ ~ReceivedFrom("Probo", "m2").absent
    /\ ~ReceivedFrom("Polymarket", "m2").absent
    /\ ReceivedFrom("Probo", "m2") # ReceivedFrom("Probo", "m1")
    /\ ReceivedFrom("Polymarket", "m2") # ReceivedFrom("Polymarket", "m1")
    /\ Len(lastCheck.opportunities) = 1

=============================================================================
